---- MODULE Spec2Model ----
(***************************************************************************)
(* A model of the sync-map crate: entry.rs (Entry<V>, a slot holding a     *)
(* heap value behind an AtomicPtr) and map.rs (SyncMap<K, V>, a read-only  *)
(* snapshot behind an AtomicPtr, a mutex-protected dirty map and a miss    *)
(* counter).                                                               *)
(*                                                                         *)
(* Heap objects are kept in three arenas addressed by positive integers,   *)
(* 0 being the null pointer: boxes (Box<V>), entries (Rc<Entry<V>>) and    *)
(* snaps (Box<ReadOnly<K, V>>).  An address is never reused, so a freed    *)
(* object stays recognisable.                                              *)
(*                                                                         *)
(* map.rs implements new, load, load_readonly, load_dirty_locked,          *)
(* miss_locked and Drop.  It has no store and no delete: StoreCall,        *)
(* StoreSlow, store_locked, dirty_locked and DeleteCall below follow the   *)
(* specification's section 4.3 and call the Entry methods of entry.rs.     *)
(* miss_locked has no caller in map.rs (the call in load_dirty_locked is   *)
(* commented out); MissCall runs it as an operation of its own.            *)
(*                                                                         *)
(* Spec is the map; EntrySpec is a single Entry with its methods and its   *)
(* Drop, and EntryLiveSpec adds the fairness of the try_swap loop.         *)
(***************************************************************************)
EXTENDS Integers, Sequences, FiniteSets, TLC

\* ---------------------------------------------------------------- bounds
\* Operations (load, store, delete, miss_locked, Entry calls) invoked in a run.
MaxOps == 5

\* Keys and values are opaque to the map: two of each tell them apart.
Keys == {"a", "b"}
Values == {1, 2}
Threads == {"t1", "t2"}

\* Option::None for a value, the null pointer for an address.
None == 0
NoKey == "-"

VARIABLES
    boxes,      \* heap of Box<V>: sequence of [val, freed]
    entries,    \* heap of Entry<V>: sequence of [state, ptr]
    snaps,      \* heap of ReadOnly<K, V>: sequence of [m, amended, freed]
    read,       \* SyncMap.read: address of the published ReadOnly, 0 = null
    dirty,      \* SyncMap.dirty's content: [some, m]
    misses,     \* SyncMap.misses
    lock,       \* holder of SyncMap.dirty's mutex, or "free"
    th,         \* per thread: position in its call, its locals, its last result
    faults,     \* undefined behaviour and panics met so far
    ref,        \* reference model: key -> the value a sequential map would hold
    stored,     \* keys ever stored
    scen,       \* [on, stores, loads]: while on, the run so far is one thread's
                \* stores of distinct keys, then its loads of keys never stored
    hist,       \* per key: "deleted" after a delete, "restored" after the store
                \* that follows a delete, "-" otherwise
    ops         \* operations invoked so far

vars == <<boxes, entries, snaps, read, dirty, misses, lock, th, faults,
          ref, stored, scen, hist, ops>>

\* ------------------------------------------------------------ entry.rs
\* enum EntryState<V>
Present(p) == [state |-> "Present", ptr |-> p]
SoftDelete == [state |-> "SoftDelete", ptr |-> 0]
HardDelete == [state |-> "HardDelete", ptr |-> 0]

\* Entry::load: the address of the value (Some(&V)), or 0 (None).
Entry_load(e) == IF e.state = "Present" THEN e.ptr ELSE None

\* Entry::unexpunge_locked: the entry afterwards and the returned bool.
unexpunge_locked_any(e) ==
    IF e.state \in {"HardDelete", "SoftDelete"}
    THEN [entry |-> SoftDelete, ret |-> TRUE]
    ELSE [entry |-> e, ret |-> FALSE]
unexpunge_locked_keep(e) == [entry |-> e, ret |-> e.state = "HardDelete"]
unexpunge_locked(e) ==
    IF e.state = "HardDelete"
    THEN [entry |-> SoftDelete, ret |-> TRUE]
    ELSE [entry |-> e, ret |-> FALSE]

\* Entry::swap_locked with the new value boxed at address p: the entry
\* afterwards, the address whose value is handed back (old, 0 for None) and
\* whether unreachable!() was hit.
swap_locked_forget(e, p) ==
    CASE e.state \in {"Present", "SoftDelete"} ->
            [entry |-> Present(p), old |-> None, panic |-> FALSE]
      [] OTHER -> [entry |-> e, old |-> None, panic |-> TRUE]
swap_locked(e, p) ==
    CASE e.state = "Present" -> [entry |-> Present(p), old |-> e.ptr, panic |-> FALSE]
      [] e.state = "SoftDelete" -> [entry |-> Present(p), old |-> None, panic |-> FALSE]
      [] OTHER -> [entry |-> e, old |-> None, panic |-> TRUE]

\* The body of try_swap's Ok arm: the pointer cell after compare_exchange_weak
\* succeeded with `new`.
cas_install_old(cur, new) == cur
cas_install(cur, new) == new

\* Whether compare_exchange_weak(old_ptr, new_ptr) can succeed.
cas_matches_never(cur, old) == FALSE
cas_matches(cur, old) == cur = old

\* ----------------------------------------------------------- heap helpers
\* rel counts the times the box was handed to Box::from_raw.
Box_new(v) == [val |-> v, freed |-> FALSE, rel |-> 0]
\* A freed object keeps its address and loses its content.
Free(heap, p) ==
    IF p = 0 THEN heap
    ELSE [heap EXCEPT ![p] = [val |-> None, freed |-> TRUE, rel |-> @.rel + 1]]
ValOf(p) == IF p = 0 THEN None ELSE boxes[p].val

EmptyMap == [k \in {} |-> 0]
FreeSnap(heap, p) ==
    IF p = 0 THEN heap
    ELSE [heap EXCEPT ![p] = [m |-> EmptyMap, amended |-> FALSE, freed |-> TRUE]]
MapPut(m, k, e) == [x \in DOMAIN m \cup {k} |-> IF x = k THEN e ELSE m[x]]
NoDirty == [some |-> FALSE, m |-> EmptyMap]
SomeDirty(m) == [some |-> TRUE, m |-> m]

\* ------------------------------------------------------------- threads
Idle ==
    [pc |-> "idle", op |-> "none", key |-> NoKey, val |-> None, snap |-> 0,
     ent |-> 0, newp |-> 0, oldp |-> 0, ret |-> None, refp |-> 0,
     present |-> FALSE, amended |-> FALSE, ub |-> FALSE,
     raced |-> FALSE, unexp |-> FALSE, panicked |-> FALSE, busy |-> FALSE,
     seq |-> 0]

\* The record of a thread entering operation op.  seq is the number of the
\* call among the calls on a single Entry (EntrySpec), 0 elsewhere.
Begin(op, k, v) == [Idle EXCEPT !.op = op, !.key = k, !.val = v]

\* The threads that have called something, and whether t is the only one.
Used == {t \in Threads : th[t].op # "none"}
Alone(t) == Used \subseteq {t}

Running == "abort" \notin faults
CanCall(t) ==
    /\ Running
    /\ th[t].pc = "idle"
    /\ ops < MaxOps
Called(t) == ops' = ops + 1

\* The scenario ghost: off for good once the run is not stores of distinct
\* keys followed by loads of keys never stored, all by one thread.
ScenOff == [on |-> FALSE, stores |-> 0, loads |-> 0]
ScenStore(t, k) ==
    IF scen.on /\ Alone(t) /\ scen.loads = 0 /\ k \notin stored
    THEN [scen EXCEPT !.stores = @ + 1]
    ELSE ScenOff
ScenLoad(t, k) ==
    IF scen.on /\ Alone(t) /\ scen.stores >= 1 /\ k \notin stored
    THEN [scen EXCEPT !.loads = @ + 1]
    ELSE ScenOff

\* &mut self: no other thread is inside a &self call on entry e, or holds a
\* reference that Entry::load borrowed from it.
Exclusive(t, e) ==
    \A u \in Threads \ {t} :
        /\ ~(th[u].pc \in {"TS_load", "TS_cas"} /\ th[u].ent = e)
        /\ th[u].refp = 0

\* --------------------------------------------------------------- map.rs
\* SyncMap::load_readonly: the address read from self.read (0: None).
load_readonly == read

\* The test of load and of load_dirty_locked: the key is not in the read
\* map and the read map is amended.
NeedsDirtyAlways(present, amended) == ~present
NeedsDirty(present, amended) == ~present /\ amended

\* What load's reads of the ReadOnly at s can yield: its fields, or
\* anything once it has been freed.
Observe(s, k) ==
    IF snaps[s].freed
    THEN {[present |-> p, amended |-> a, ub |-> TRUE] : p \in BOOLEAN, a \in BOOLEAN}
    ELSE {[present |-> k \in DOMAIN snaps[s].m, amended |-> snaps[s].amended,
           ub |-> FALSE]}

\* SyncMap::load_dirty_locked, the guard held: the address of the value, or 0.
load_dirty_locked(key) ==
    IF load_readonly = 0 THEN None
    ELSE LET r == snaps[load_readonly] IN
         IF NeedsDirty(key \in DOMAIN r.m, r.amended)
         THEN IF key \in DOMAIN dirty.m
              THEN Entry_load(entries[dirty.m[key]])
              ELSE None
         ELSE None

\* What SyncMap::load returns when the entry of the read map is loaded:
\* the result of Entry::load is dropped and the function ends in None.
load_present(e) == None

\* SyncMap::load run to its end with no other thread moving: the address of
\* the value, or 0.
load(key) ==
    IF load_readonly = 0 THEN None
    ELSE LET r == snaps[load_readonly]
             present == key \in DOMAIN r.m
         IN  IF NeedsDirty(present, r.amended) THEN load_dirty_locked(key)
             ELSE IF ~present THEN None
             ELSE load_present(entries[r.m[key]])

\* load, up to load_readonly's read of self.read.
LoadCall(t, k) ==
    /\ CanCall(t)
    /\ Called(t)
    /\ IF load_readonly = 0
       THEN th' = [th EXCEPT ![t] = Begin("load", k, None)]
       ELSE th' = [th EXCEPT ![t] = [Begin("load", k, None) EXCEPT
                                       !.pc = "L2", !.snap = load_readonly]]
    /\ scen' = ScenLoad(t, k)
    /\ UNCHANGED <<boxes, entries, snaps, read, dirty, misses, lock, faults,
                   ref, stored, hist>>

\* load, the reads of the ReadOnly: contains_key, amended, and the entry's
\* load on the path that finds the key.
LoadCheck(t) ==
    /\ Running
    /\ th[t].pc = "L2"
    /\ \E o \in Observe(th[t].snap, th[t].key) :
       \E go \in IF o.ub THEN {"continue", "abort"} ELSE {"continue"} :
          /\ faults' = IF o.ub
                       THEN faults \cup {"use_after_free"} \cup
                            (IF go = "abort" THEN {"abort"} ELSE {})
                       ELSE faults
          /\ IF NeedsDirty(o.present, o.amended)
             THEN th' = [th EXCEPT ![t] = [@ EXCEPT !.pc = "L_lock", !.snap = 0,
                              !.present = o.present, !.amended = o.amended,
                              !.ub = o.ub]]
             ELSE th' = [th EXCEPT ![t] = [@ EXCEPT !.pc = "idle", !.snap = 0,
                              !.present = o.present, !.amended = o.amended,
                              !.ub = o.ub,
                              !.busy = lock # "free",
                              !.ret = IF o.present /\ ~o.ub
                                      THEN ValOf(load_present(
                                             entries[snaps[th[t].snap].m[th[t].key]]))
                                      ELSE None]]
    /\ UNCHANGED <<boxes, entries, snaps, read, dirty, misses, lock,
                   ref, stored, scen, hist, ops>>

\* load, self.dirty.lock().as_ref().unwrap(): the thread waits for the mutex,
\* and the unwrap panics on a dirty map that is None.  The guard is held
\* through load_dirty_locked, whose signature takes it.
LoadLock(t) ==
    /\ Running
    /\ th[t].pc = "L_lock"
    /\ lock = "free"
    /\ IF dirty.some
       THEN /\ lock' = t
            /\ th' = [th EXCEPT ![t] = [@ EXCEPT !.pc = "L_dirty"]]
            /\ UNCHANGED faults
       ELSE /\ lock' = "free"
            /\ th' = [th EXCEPT ![t] = [@ EXCEPT !.pc = "idle", !.panicked = TRUE]]
            /\ faults' = faults \cup {"unwrap_none"}
    /\ UNCHANGED <<boxes, entries, snaps, read, dirty, misses,
                   ref, stored, scen, hist, ops>>

\* load, the call of load_dirty_locked and the return; the guard is dropped.
LoadDirty(t) ==
    /\ Running
    /\ th[t].pc = "L_dirty"
    /\ lock = t
    /\ lock' = "free"
    /\ th' = [th EXCEPT ![t] = [@ EXCEPT !.pc = "idle",
                  !.ret = ValOf(load_dirty_locked(th[t].key))]]
    /\ UNCHANGED <<boxes, entries, snaps, read, dirty, misses, faults,
                   ref, stored, scen, hist, ops>>

\* The caller of miss_locked takes the guard of self.dirty.
MissCall(t) ==
    /\ CanCall(t)
    /\ Called(t)
    /\ lock = "free"
    /\ lock' = t
    /\ th' = [th EXCEPT ![t] = [Begin("miss", NoKey, None) EXCEPT !.pc = "M1"]]
    /\ scen' = ScenOff
    /\ UNCHANGED <<boxes, entries, snaps, read, dirty, misses, faults,
                   ref, stored, hist>>

\* miss_locked's test after fetch_add returned num: below the threshold.
below_threshold_le(num, len) == num + 1 <= len
below_threshold(num, len) == num + 1 < len

\* miss_locked, guard.as_ref().unwrap() on a dirty map that is None: the
\* panic unwinds and drops the guard; fetch_add has been done.
MissPanic(t) ==
    /\ Running
    /\ th[t].pc = "M1"
    /\ ~dirty.some
    /\ misses' = misses + 1
    /\ lock' = "free"
    /\ th' = [th EXCEPT ![t] = [@ EXCEPT !.pc = "idle", !.panicked = TRUE]]
    /\ faults' = faults \cup {"unwrap_none"}
    /\ UNCHANGED <<boxes, entries, snaps, read, dirty,
                   ref, stored, scen, hist, ops>>

\* miss_locked, the early return.
MissReturn(t) ==
    /\ Running
    /\ th[t].pc = "M1"
    /\ dirty.some
    /\ below_threshold(misses, Cardinality(DOMAIN dirty.m))
    /\ misses' = misses + 1
    /\ lock' = "free"
    /\ th' = [th EXCEPT ![t] = [@ EXCEPT !.pc = "idle"]]
    /\ UNCHANGED <<boxes, entries, snaps, read, dirty, faults,
                   ref, stored, scen, hist, ops>>

\* The ReadOnly miss_locked builds from the dirty map.
promoted_amended(m) == [m |-> m, amended |-> TRUE, freed |-> FALSE]
promoted(m) == [m |-> m, amended |-> FALSE, freed |-> FALSE]

\* What miss_locked does with the pointer swapped out of self.read:
\* Box::from_raw(old) is dropped at once.
release_old(heap, old) == FreeSnap(heap, old)

\* The counter after self.misses.store(0).
misses_reset(n) == 0

\* miss_locked, the promotion: the dirty map is taken into a new ReadOnly,
\* which is swapped into self.read; the old ReadOnly is freed (a null old
\* pointer makes Box::from_raw undefined); the counter is reset.
MissPromote(t) ==
    /\ Running
    /\ th[t].pc = "M1"
    /\ dirty.some
    /\ ~below_threshold(misses, Cardinality(DOMAIN dirty.m))
    /\ snaps' = Append(release_old(snaps, read), promoted(dirty.m))
    /\ read' = Len(snaps) + 1
    /\ dirty' = NoDirty
    /\ misses' = misses_reset(misses)
    /\ lock' = "free"
    /\ th' = [th EXCEPT ![t] = [@ EXCEPT !.pc = "idle"]]
    /\ \E go \in IF read = 0 THEN {"continue", "abort"} ELSE {"continue"} :
          faults' = IF read = 0
                    THEN faults \cup {"free_null"} \cup
                         (IF go = "abort" THEN {"abort"} ELSE {})
                    ELSE faults
    /\ UNCHANGED <<boxes, entries, ref, stored, scen, hist, ops>>

\* ------------------------------------------------- entry.rs, try_swap
\* The ghost state when a store of v to k takes effect.
StoreTakesEffect(t) ==
    IF th[t].op = "store"
    THEN /\ ref' = [ref EXCEPT ![th[t].key] = th[t].val]
         /\ stored' = stored \cup {th[t].key}
         /\ hist' = [hist EXCEPT ![th[t].key] =
                        IF @ = "deleted" THEN "restored" ELSE "-"]
    ELSE UNCHANGED <<ref, stored, hist>>

\* try_swap, ptr.load(Acquire) at the head of the loop.
TSLoad(t) ==
    /\ Running
    /\ th[t].pc = "TS_load"
    /\ th' = [th EXCEPT ![t] = [@ EXCEPT !.pc = "TS_cas",
                                         !.oldp = entries[th[t].ent].ptr]]
    /\ UNCHANGED <<boxes, entries, snaps, read, dirty, misses, lock, faults,
                   ref, stored, scen, hist, ops>>

\* try_swap, compare_exchange_weak returns Ok(ptr): the new box is installed
\* and the value of the old box is moved out of it and returned.
TSCasOk(t) ==
    /\ Running
    /\ th[t].pc = "TS_cas"
    /\ cas_matches(entries[th[t].ent].ptr, th[t].oldp)
    /\ entries' = [entries EXCEPT ![th[t].ent].ptr =
                        cas_install(entries[th[t].ent].ptr, th[t].newp)]
    /\ boxes' = Free(boxes, th[t].oldp)
    /\ th' = [th EXCEPT ![t] = [@ EXCEPT !.pc = "idle", !.oldp = 0, !.ent = 0,
                                         !.ret = ValOf(th[t].oldp)]]
    /\ StoreTakesEffect(t)
    /\ UNCHANGED <<snaps, read, dirty, misses, lock, faults, scen, ops>>

\* try_swap, compare_exchange_weak returns Err: the pointer changed, or the
\* weak exchange failed spuriously; the loop goes round.
TSCasErr(t) ==
    /\ Running
    /\ th[t].pc = "TS_cas"
    /\ th' = [th EXCEPT ![t] = [@ EXCEPT !.pc = "TS_load",
                  !.raced = @ \/ ~cas_matches(entries[th[t].ent].ptr, th[t].oldp)]]
    /\ UNCHANGED <<boxes, entries, snaps, read, dirty, misses, lock, faults,
                   ref, stored, scen, hist, ops>>

\* ------------------------------------------- store and delete (spec 4.3)
ReadMap == IF read = 0 THEN EmptyMap ELSE snaps[read].m
ReadAmended == read # 0 /\ snaps[read].amended

\* The first write after a promotion builds the dirty map from the read map:
\* entries without a value are expunged and left out, the others are shared.
dirty_locked ==
    IF dirty.some
    THEN [dirty |-> dirty, entries |-> entries]
    ELSE [dirty |-> SomeDirty([x \in {y \in DOMAIN ReadMap :
                                        entries[ReadMap[y]].state = "Present"}
                               |-> ReadMap[x]]),
          entries |-> [i \in DOMAIN entries |->
                         IF /\ \E y \in DOMAIN ReadMap : ReadMap[y] = i
                            /\ entries[i].state = "SoftDelete"
                         THEN HardDelete
                         ELSE entries[i]]]

\* store, the lock-free path: the key has a live entry in the read map and
\* try_swap is called on it; otherwise the thread goes for the lock.
StoreCall(t, k, v) ==
    /\ CanCall(t)
    /\ Called(t)
    /\ scen' = ScenStore(t, k)
    /\ IF k \in DOMAIN ReadMap /\ entries[ReadMap[k]].state = "Present"
       THEN /\ boxes' = Append(boxes, Box_new(v))
            /\ th' = [th EXCEPT ![t] = [Begin("store", k, v) EXCEPT
                          !.pc = "TS_load", !.ent = ReadMap[k],
                          !.newp = Len(boxes) + 1]]
       ELSE /\ th' = [th EXCEPT ![t] = [Begin("store", k, v) EXCEPT !.pc = "S_lock"]]
            /\ UNCHANGED boxes
    /\ UNCHANGED <<entries, snaps, read, dirty, misses, lock, faults,
                   ref, stored, hist>>

\* store under the lock, the key resolved again: the heap, the dirty map and
\* the read pointer afterwards, and the entry written (0: a new one).
store_locked(k, v) ==
    LET p == Len(boxes) + 1
        heap == Append(boxes, Box_new(v))
    IN  IF k \in DOMAIN ReadMap
        THEN LET e == ReadMap[k]
                 un == unexpunge_locked(entries[e])
                 sw == swap_locked(un.entry, p)
             IN  [entries |-> [entries EXCEPT ![e] = sw.entry],
                  boxes |-> Free(heap, sw.old),
                  dirty |-> IF un.ret THEN SomeDirty(MapPut(dirty.m, k, e)) ELSE dirty,
                  snaps |-> snaps, read |-> read, ent |-> e, old |-> sw.old,
                  unexp |-> un.ret, panic |-> sw.panic]
        ELSE IF dirty.some /\ k \in DOMAIN dirty.m
        THEN LET e == dirty.m[k]
                 sw == swap_locked(entries[e], p)
             IN  [entries |-> [entries EXCEPT ![e] = sw.entry],
                  boxes |-> Free(heap, sw.old),
                  dirty |-> dirty,
                  snaps |-> snaps, read |-> read, ent |-> e, old |-> sw.old,
                  unexp |-> FALSE, panic |-> sw.panic]
        ELSE LET boot == IF ReadAmended
                         THEN [dirty |-> dirty, entries |-> entries]
                         ELSE dirty_locked
             IN  [entries |-> Append(boot.entries, Present(p)),
                  boxes |-> heap,
                  dirty |-> SomeDirty(MapPut(boot.dirty.m, k, Len(entries) + 1)),
                  snaps |-> IF ReadAmended THEN snaps
                            ELSE Append(snaps, [m |-> ReadMap, amended |-> TRUE,
                                                freed |-> FALSE]),
                  read |-> IF ReadAmended THEN read ELSE Len(snaps) + 1,
                  ent |-> 0, old |-> None, unexp |-> FALSE, panic |-> FALSE]

\* store, the locked path: the mutex is taken, held for store_locked and
\* released.
StoreSlow(t) ==
    /\ Running
    /\ th[t].pc = "S_lock"
    /\ lock = "free"
    /\ LET r == store_locked(th[t].key, th[t].val) IN
       /\ r.ent # 0 => Exclusive(t, r.ent)
       /\ entries' = r.entries
       /\ boxes' = r.boxes
       /\ dirty' = r.dirty
       /\ snaps' = r.snaps
       /\ read' = r.read
       /\ th' = [th EXCEPT ![t] = [@ EXCEPT !.pc = "idle",
                                            !.ret = ValOf(r.old),
                                            !.unexp = r.unexp,
                                            !.panicked = r.panic]]
       /\ faults' = IF r.panic THEN faults \cup {"unreachable"} ELSE faults
    /\ StoreTakesEffect(t)
    /\ UNCHANGED <<misses, lock, scen, ops>>

\* delete: a live entry found through the read map, or through the dirty map
\* (under the lock) when the read map is amended, becomes SoftDelete and its
\* value is handed back; it stays where it is.
delete_entry(k) ==
    IF k \in DOMAIN ReadMap THEN ReadMap[k]
    ELSE IF ReadAmended /\ dirty.some /\ k \in DOMAIN dirty.m THEN dirty.m[k]
    ELSE 0

DeleteCall(t, k) ==
    /\ CanCall(t)
    /\ Called(t)
    /\ (k \notin DOMAIN ReadMap /\ ReadAmended) => lock = "free"
    /\ LET e == delete_entry(k) IN
       IF e # 0 /\ entries[e].state = "Present"
       THEN /\ Exclusive(t, e)
            /\ entries' = [entries EXCEPT ![e] = SoftDelete]
            /\ boxes' = Free(boxes, entries[e].ptr)
            /\ th' = [th EXCEPT ![t] = [Begin("delete", k, None) EXCEPT
                          !.ret = ValOf(entries[e].ptr)]]
       ELSE /\ th' = [th EXCEPT ![t] = Begin("delete", k, None)]
            /\ UNCHANGED <<boxes, entries>>
    /\ ref' = [ref EXCEPT ![k] = None]
    /\ hist' = [hist EXCEPT ![k] = "deleted"]
    /\ scen' = ScenOff
    /\ UNCHANGED <<snaps, read, dirty, misses, lock, faults, stored>>

\* --------------------------------------------------------- the map machine
\* SyncMap::new: no ReadOnly published, an empty dirty map, no misses.
Init ==
    /\ boxes = <<>>
    /\ entries = <<>>
    /\ snaps = <<>>
    /\ read = 0
    /\ dirty = SomeDirty(EmptyMap)
    /\ misses = 0
    /\ lock = "free"
    /\ th = [t \in Threads |-> Idle]
    /\ faults = {}
    /\ ref = [k \in Keys |-> None]
    /\ stored = {}
    /\ scen = [on |-> TRUE, stores |-> 0, loads |-> 0]
    /\ hist = [k \in Keys |-> "-"]
    /\ ops = 0

Next ==
    \E t \in Threads :
        \/ \E k \in Keys : LoadCall(t, k)
        \/ LoadCheck(t)
        \/ LoadLock(t)
        \/ LoadDirty(t)
        \/ MissCall(t)
        \/ MissPanic(t)
        \/ MissReturn(t)
        \/ MissPromote(t)
        \/ \E k \in Keys, v \in Values : StoreCall(t, k, v)
        \/ TSLoad(t)
        \/ TSCasOk(t)
        \/ TSCasErr(t)
        \/ StoreSlow(t)
        \/ \E k \in Keys : DeleteCall(t, k)

Spec == Init /\ [][Next]_vars

\* ------------------------------------------------- one Entry on its own
\* The entry under test is entries[1].
TheEntry == 1

\* Entry::new(v) or Entry::new_null_entry().
EntryInit ==
    /\ \/ \E v \in Values : boxes = <<Box_new(v)>> /\ entries = <<Present(1)>>
       \/ boxes = <<>> /\ entries = <<HardDelete>>
    /\ snaps = <<>>
    /\ read = 0
    /\ dirty = SomeDirty(EmptyMap)
    /\ misses = 0
    /\ lock = "free"
    /\ th = [t \in Threads |-> Idle]
    /\ faults = {}
    /\ ref = [k \in Keys |-> None]
    /\ stored = {}
    /\ scen = [on |-> TRUE, stores |-> 0, loads |-> 0]
    /\ hist = [k \in Keys |-> "-"]
    /\ ops = 0

MapUnchanged ==
    UNCHANGED <<snaps, read, dirty, misses, lock, ref, stored, scen, hist>>

\* Entry::load.
EntryLoad(t) ==
    /\ CanCall(t)
    /\ Called(t)
    /\ th' = [th EXCEPT ![t] = [Begin("entry_load", NoKey, None) EXCEPT
                  !.seq = ops + 1,
                  !.refp = Entry_load(entries[TheEntry]),
                  !.ret = ValOf(Entry_load(entries[TheEntry]))]]
    /\ UNCHANGED <<boxes, entries, faults>>
    /\ MapUnchanged

\* Entry::try_swap(v), up to the loop: on a Present entry the value is boxed;
\* on any other entry the call returns Some(val).
TrySwapCall(t, v) ==
    /\ CanCall(t)
    /\ Called(t)
    /\ IF entries[TheEntry].state = "Present"
       THEN /\ boxes' = Append(boxes, Box_new(v))
            /\ th' = [th EXCEPT ![t] = [Begin("try_swap", NoKey, v) EXCEPT
                          !.seq = ops + 1,
                          !.pc = "TS_load", !.ent = TheEntry,
                          !.newp = Len(boxes) + 1]]
       ELSE /\ th' = [th EXCEPT ![t] = [Begin("try_swap", NoKey, v) EXCEPT
                          !.seq = ops + 1,
                          !.ret = v]]
            /\ UNCHANGED boxes
    /\ UNCHANGED <<entries, faults>>
    /\ MapUnchanged

\* Entry::unexpunge_locked(&mut self).
UnexpungeLocked(t) ==
    /\ CanCall(t)
    /\ Called(t)
    /\ Exclusive(t, TheEntry)
    /\ entries' = [entries EXCEPT ![TheEntry] = unexpunge_locked(@).entry]
    /\ th' = [th EXCEPT ![t] = [Begin("unexpunge_locked", NoKey, None) EXCEPT
                  !.seq = ops + 1,
                  !.unexp = unexpunge_locked(entries[TheEntry]).ret]]
    /\ UNCHANGED <<boxes, faults>>
    /\ MapUnchanged

\* Entry::swap_locked(&mut self, v).
SwapLocked(t, v) ==
    /\ CanCall(t)
    /\ Called(t)
    /\ Exclusive(t, TheEntry)
    /\ LET sw == swap_locked(entries[TheEntry], Len(boxes) + 1) IN
       /\ entries' = [entries EXCEPT ![TheEntry] = sw.entry]
       /\ boxes' = IF sw.panic THEN boxes
                   ELSE Free(Append(boxes, Box_new(v)), sw.old)
       /\ th' = [th EXCEPT ![t] = [Begin("swap_locked", NoKey, v) EXCEPT
                     !.seq = ops + 1,
                     !.ret = ValOf(sw.old),
                     !.panicked = sw.panic]]
       /\ faults' = IF sw.panic THEN faults \cup {"unreachable"} ELSE faults
    /\ MapUnchanged

\* What Drop for Entry hands to Box::from_raw: the box of a Present entry.
drop_frees_none(e) == 0
drop_frees(e) == IF e.state = "Present" THEN e.ptr ELSE 0

\* The storage of an Entry that has been dropped.
Dropped == [state |-> "Dropped", ptr |-> 0]

\* Drop for Entry: the owner drops the entry once no call is running; every
\* borrow of it has ended and no thread can reach it afterwards.
EntryDrop ==
    /\ Running
    /\ \A u \in Threads : th[u].pc = "idle"
    /\ boxes' = Free(boxes, drop_frees(entries[TheEntry]))
    /\ entries' = [entries EXCEPT ![TheEntry] = Dropped]
    /\ th' = [u \in Threads |-> [th[u] EXCEPT !.pc = "end", !.refp = 0]]
    /\ UNCHANGED <<faults, ops>>
    /\ MapUnchanged

EntryNext ==
    \/ EntryDrop
    \/ \E t \in Threads :
        \/ EntryLoad(t)
        \/ \E v \in Values : TrySwapCall(t, v)
        \/ TSLoad(t)
        \/ TSCasOk(t)
        \/ TSCasErr(t)
        \/ UnexpungeLocked(t)
        \/ \E v \in Values : SwapLocked(t, v)

EntrySpec == EntryInit /\ [][EntryNext]_vars

\* Every thread inside try_swap keeps running, and compare_exchange_weak does
\* not fail for ever on a pointer that keeps matching.
EntryFair ==
    \A t \in Threads :
        /\ WF_vars(TSLoad(t) \/ TSCasOk(t) \/ TSCasErr(t))
        /\ SF_vars(TSCasOk(t))

EntryLiveSpec == EntryInit /\ [][EntryNext]_vars /\ EntryFair

\* ---------------------------------------------------------------- claims
Quiescent == \A t \in Threads : th[t].pc = "idle"

\* The map's load of key k has returned to thread t, which has called
\* nothing since.
LoadReturned(t, k) == th[t].pc = "idle" /\ th[t].op = "load" /\ th[t].key = k

\* Thread t's store went through try_swap and has returned.
StoredByTrySwap(t, k) ==
    /\ th[t].pc = "idle"
    /\ th[t].op = "store"
    /\ th[t].key = k
    /\ th[t].newp # 0

\* C1: in a run in which a single thread calls store, delete and load, with
\* promotions by miss_locked in between, a load of k returns the value of the
\* latest store to k that no delete followed, and None when there is none.
C1_SequentialLoad ==
    \A t \in Threads : \A k \in Keys :
        (Alone(t) /\ LoadReturned(t, k)) => th[t].ret = ref[k]

\* C2: for a key of the published ReadOnly, SyncMap::load returns what
\* Entry::load returns for the key's entry.
C2_LoadDelegates ==
    \A k \in Keys :
        k \in DOMAIN ReadMap => load(k) = Entry_load(entries[ReadMap[k]])

\* C3: after two threads have stored concurrently to one key through try_swap,
\* a load of the key returns one of the two stored values.
C3_ConcurrentStores ==
    \A k \in Keys :
        (/\ \A t \in Threads : StoredByTrySwap(t, k)
         /\ \E t \in Threads : th[t].raced)
            => ValOf(load(k)) \in {th[t].val : t \in Threads}

\* C4: after a delete of k followed by a store of v to k, a load of k
\* returns v.
C4_StoreAfterDelete ==
    \A k \in Keys :
        (Quiescent /\ hist[k] = "restored") => ValOf(load(k)) = ref[k]

\* C5: after N stores of distinct keys followed by at least N loads of keys
\* never stored, and nothing else, the stored keys are in a ReadOnly published
\* by a promotion.
C5_PromotionAfterMisses ==
    (/\ Quiescent
     /\ scen.on
     /\ scen.stores >= 1
     /\ scen.loads >= scen.stores)
        => (read # 0 /\ ~snaps[read].amended /\ stored \subseteq DOMAIN snaps[read].m)

\* C6: a promotion leaves the result of load unchanged for every key for
\* which load returned a value before it.
C6_PromotionKeepsLoad ==
    [][(read' # read /\ ~snaps'[read'].amended) =>
          \A k \in Keys :
              load(k) # None => (ValOf(load(k)))' = ValOf(load(k))]_vars

\* C7: a load that holds a reference to a ReadOnly and has yet to read
\* through it never holds a freed ReadOnly.
C7_NoFreedSnapshotHeld ==
    \A t \in Threads : th[t].pc = "L2" => ~snaps[th[t].snap].freed

\* C8: a load that saw its key in the ReadOnly, or saw the key absent and
\* amended false, neither waits for nor takes the mutex of the dirty map, and
\* its reads of the ReadOnly can be taken whoever holds that mutex.
C8_FastLoadTakesNoLock ==
    \A t \in Threads :
        /\ (th[t].op = "load" /\ th[t].pc # "L2"
                /\ (th[t].present \/ ~th[t].amended))
              => (th[t].pc = "idle" /\ lock # t)
        /\ (th[t].pc = "L2" /\ Running) => ENABLED LoadCheck(t)

\* A load found its key in a live ReadOnly and returned while another thread
\* held the mutex.
C8_Witness ==
    \E t \in Threads :
        /\ LoadReturned(t, th[t].key)
        /\ th[t].present
        /\ ~th[t].ub
        /\ th[t].busy

\* C9: no entry of the dirty map is HardDelete.
C9_NoExpungedInDirty ==
    \A k \in DOMAIN dirty.m : entries[dirty.m[k]].state # "HardDelete"

C9_Witness ==
    \E t \in Threads :
        /\ th[t].pc = "idle"
        /\ th[t].op = "store"
        /\ th[t].unexp
        /\ th[t].key \in DOMAIN dirty.m
        /\ entries[dirty.m[th[t].key]].state = "Present"

\* C10: the step in which try_swap(v) returns on a Present entry installs v,
\* so that Entry::load then yields v, and returns the value the entry held
\* just before that step.
C10_TrySwapInstalls ==
    [][\A t \in Threads :
          (th[t].pc = "TS_cas" /\ th'[t].pc = "idle") =>
              /\ entries'[th[t].ent].state = "Present"
              /\ ~boxes'[Entry_load(entries'[th[t].ent])].freed
              /\ boxes'[Entry_load(entries'[th[t].ent])].val = th[t].val
              /\ th'[t].ret = boxes[Entry_load(entries[th[t].ent])].val]_vars

C10_Witness ==
    \E t \in Threads :
        /\ th[t].pc = "idle"
        /\ th[t].op = "try_swap"
        /\ th[t].raced
        /\ Entry_load(entries[TheEntry]) = th[t].newp
        /\ ValOf(th[t].newp) = th[t].val

\* ------------------------------------------------ claims on a single Entry
\* Thread t made the call that this step starts.
Calls(t, op) == ops' = ops + 1 /\ th'[t].seq = ops' /\ th'[t].op = op

\* Thread t's call of op has returned.
Returned(t, op) == th[t].op = op /\ th[t].pc \in {"idle", "end"}

\* C11: what try_swap returns when it did not swap (the entry was SoftDelete
\* or HardDelete) tells the caller so: it differs from what a try_swap that
\* did swap has returned.
C11_TrySwapSignalsFallback ==
    \A t \in Threads : \A u \in Threads :
        (/\ Returned(t, "try_swap") /\ th[t].newp # 0
         /\ Returned(u, "try_swap") /\ th[u].newp = 0)
            => th[t].ret # th[u].ret

\* C12: swap_locked(v) on a Present entry installs v and returns the value
\* held before; on a SoftDelete entry it makes the entry Present with v and
\* returns None; Entry::load then yields v.
C12_SwapLocked ==
    [][\A t \in Threads :
          (Calls(t, "swap_locked") /\ entries[TheEntry].state # "HardDelete") =>
              /\ entries'[TheEntry].state = "Present"
              /\ ~boxes'[Entry_load(entries'[TheEntry])].freed
              /\ boxes'[Entry_load(entries'[TheEntry])].val = th'[t].val
              /\ th'[t].ret = IF entries[TheEntry].state = "Present"
                              THEN boxes[entries[TheEntry].ptr].val
                              ELSE None]_vars

\* swap_locked has made a SoftDelete entry Present and returned None.
C12_Witness ==
    \E t \in Threads :
        /\ Returned(t, "swap_locked")
        /\ th[t].pc = "idle"
        /\ ~th[t].panicked
        /\ th[t].ret = None
        /\ ValOf(Entry_load(entries[TheEntry])) = th[t].val

\* C13: unexpunge_locked returns true exactly when the entry was HardDelete,
\* and then leaves it SoftDelete; otherwise the entry and its value are as
\* before.
C13_UnexpungeLocked ==
    [][\A t \in Threads :
          Calls(t, "unexpunge_locked") =>
              /\ th'[t].unexp = (entries[TheEntry].state = "HardDelete")
              /\ entries'[TheEntry] = IF entries[TheEntry].state = "HardDelete"
                                      THEN SoftDelete
                                      ELSE entries[TheEntry]
              /\ boxes' = boxes]_vars

\* One thread has been told true, the other, calling later, false.
C13_Witness ==
    \E t \in Threads : \E u \in Threads :
        /\ Returned(t, "unexpunge_locked") /\ th[t].unexp
        /\ Returned(u, "unexpunge_locked") /\ ~th[u].unexp
        /\ th[u].seq > th[t].seq

\* C17: a box is handed to Box::from_raw at most once; a box not yet handed
\* to it is the one the entry holds or the one a running try_swap is about to
\* install; once the entry is dropped every box has been released.
C17_ReleasedOnce ==
    \A p \in DOMAIN boxes :
        /\ boxes[p].rel <= 1
        /\ boxes[p].rel = 0 =>
              \/ Entry_load(entries[TheEntry]) = p
              \/ \E t \in Threads :
                    th[t].pc \in {"TS_load", "TS_cas"} /\ th[t].newp = p

\* The entry was dropped after a try_swap and a swap_locked had put values
\* into it.
C17_Witness ==
    /\ entries[TheEntry] = Dropped
    /\ \E t \in Threads : Returned(t, "try_swap") /\ th[t].newp # 0 /\ th[t].raced
    /\ \A p \in DOMAIN boxes : boxes[p].rel = 1
    /\ Len(boxes) >= 3

\* C16 as stated: compare_exchange_weak fails in try_swap's loop only when
\* the pointer is no longer the one the loop read.
C16_CasFailsOnlyOnInterference ==
    [][\A t \in Threads :
          (th[t].pc = "TS_cas" /\ th'[t].pc = "TS_load") =>
              ~cas_matches(entries[th[t].ent].ptr, th[t].oldp)]_vars

\* C16: every call of try_swap on a Present entry returns, the threads inside
\* it being scheduled fairly and compare_exchange_weak not failing spuriously
\* for ever.
C16_TrySwapReturns ==
    \A t \in Threads :
        (th[t].pc \in {"TS_load", "TS_cas"}) ~> (th[t].pc \in {"idle", "end"})

\* Both threads were inside try_swap on the entry together and both returned.
C16_Witness ==
    /\ \A t \in Threads : Returned(t, "try_swap") /\ th[t].newp # 0
    /\ \E t \in Threads : th[t].raced

\* C18: the reference a thread got from Entry::load and still holds points
\* to a value that has not been freed.
C18_NoFreedReferenceHeld ==
    \A t \in Threads : th[t].refp # 0 => ~boxes[th[t].refp].freed

\* ------------------------------------------------- claims on promotion
\* Thread t's call of miss_locked ends in this step, the dirty map being Some.
MissEnds(t) == th[t].pc = "M1" /\ th'[t].pc = "idle" /\ dirty.some

\* C14: a call of miss_locked adds one to the miss counter and promotes
\* exactly when the count so reached is at least the number of keys of the
\* dirty map; below that, self.read and the dirty map stay as they are.  (A
\* promotion replaces a published ReadOnly; on a null self.read see C20.)
C14_MissThreshold ==
    [][\A t \in Threads :
          MissEnds(t) =>
              IF misses + 1 < Cardinality(DOMAIN dirty.m)
              THEN /\ misses' = misses + 1
                   /\ read' = read
                   /\ dirty' = dirty
                   /\ snaps' = snaps
              ELSE /\ read' # read
                   /\ read # 0 => (snaps'[read'].m = dirty.m /\ misses' = 0)]_vars

\* A call of miss_locked has returned below the threshold.
C14_Witness ==
    \E t \in Threads :
        /\ th[t].pc = "idle"
        /\ th[t].op = "miss"
        /\ ~th[t].panicked
        /\ misses >= 1
        /\ dirty.some
        /\ misses < Cardinality(DOMAIN dirty.m)

C19_AmendedHasDirty ==
    /\ ReadAmended => dirty.some
    /\ \A t \in Threads : ~(th[t].op = "load" /\ th[t].panicked)

\* C20: no promotion hands a null self.read to Box::from_raw, and the
\* published ReadOnly has not been freed.
C20_SnapshotFreedOnce ==
    /\ "free_null" \notin faults
    /\ read # 0 => ~snaps[read].freed

====
